---- MODULE Spec2Model ----
(***************************************************************************)
(* State-machine model of the GLPI ticket-to-PDF service:                  *)
(*   glpi_app/main.py            webhook endpoint and AutoPDF pipeline      *)
(*   glpi_app/glpi_connector.py  GLPIConnector (session, ticket, documents) *)
(*   glpi_app/pdf_generator.py   PDFGenerator (build, upload, cleanup)      *)
(*   glpi_app/llm_service.py     LLMService (rag_completion, complete,      *)
(*                               process_image)                             *)
(* Texts are sequences of tokens; the empty sequence is the empty string.  *)
(* The process is one asyncio event loop: process_ticket has no await, so   *)
(* a run executes from start to return without any other coroutine running.*)
(***************************************************************************)
EXTENDS Integers, Sequences, FiniteSets, TLC

\* ------------------------------------------------------------------ bounds
MaxRequests == 2    \* webhook requests served over the life of the process
MaxBatch == 2       \* event records in one webhook body
MaxItems == 2       \* linked items returned for one ticket
MaxDocs == 2        \* documents of a ticket handed to the stages directly
MaxText == 4        \* tokens of a text handed to the cleaner directly
MaxSources == 2     \* entries of a source_info list handed to generate_report directly
MaxResult == 5      \* tokens of a result text handed to _add_structured_result directly

\* ------------------------------------------------------- program constants
stop_after_attempt == 3

None == "None"
NoToken == 0        \* session_token is None
EmptyText == << >>
NoInformation == <<"No information available.">>
NL == "\n"

\* ------------------------------------------------------------------- state
VARIABLES
  user_token,     \* AutoPDF.user_token: TRUE when GLPI_USER_TOKEN is set
  bucket_name,    \* PDFGenerator.bucket_name: TRUE when WASABI_BUCKET_NAME is set
  glpi,           \* the one GLPIConnector: session_token, headers
  sessions,       \* remote side: sessions[tok] = ticket of the run that opened it, kill requests received
  used,           \* remote side: <<token, ticket id>> of every authenticated request
  http,           \* the webhook request being served: body, response, tasks added
  served,         \* number of webhook requests received
  pending,        \* background tasks released by sent responses
  run,            \* locals and position of the running process_ticket
  obs,            \* what the running process_ticket has done so far; the request counts and the
                  \* init_session / get_ticket_documents results are those of its get_ticket call
  files,          \* local files glpi_ticket_<id>.pdf that exist
  bucket          \* objects stored in the bucket

vars == <<user_token, bucket_name, glpi, sessions, used, http, served, pending, run, obs, files, bucket>>

TicketIds == {1, 2}

\* ------------------------------------------------------------ webhook input
\* items_id as JSON carries it: an integer, a string, or absent
ItemIdValues ==
  { [t |-> "int", n |-> 1, s |-> << >>],
    [t |-> "str", n |-> 0, s |-> <<"2">>],
    [t |-> "str", n |-> 0, s |-> <<"x">>],
    [t |-> "null", n |-> 0, s |-> << >>] }

Junk == [event |-> "junk", itemtype |-> "junk", items_id |-> [t |-> "null", n |-> 0, s |-> << >>]]

EventRecords ==
  [event : {"add", "update", "delete"}, itemtype : {"Ticket", "Computer"}, items_id : ItemIdValues]

BatchesOfLen(n) == [1..n -> EventRecords \cup {Junk}]

\* a request body: text that is not JSON, or a JSON array of records
Bodies ==
  {[json |-> FALSE, data |-> << >>]}
    \cup { [json |-> TRUE, data |-> d] : d \in UNION { BatchesOfLen(n) : n \in 0..MaxBatch } }

IsDict(event) == event # Junk

Digit(c) == CASE c = "0" -> 0 [] c = "1" -> 1 [] c = "2" -> 2 [] c = "3" -> 3 [] c = "4" -> 4
              [] c = "5" -> 5 [] c = "6" -> 6 [] c = "7" -> 7 [] c = "8" -> 8 [] c = "9" -> 9
              [] OTHER -> -1

RECURSIVE Decimal(_)
Decimal(s) == IF s = << >> THEN 0 ELSE 10 * Decimal(SubSeq(s, 1, Len(s) - 1)) + Digit(s[Len(s)])

\* int(x): defined on integers and on non-empty digit strings
IntDefined(x) ==
  \/ x.t = "int"
  \/ x.t = "str" /\ x.s # << >> /\ \A i \in 1..Len(x.s) : Digit(x.s[i]) >= 0

IntOf(x) == IF x.t = "int" THEN x.n ELSE Decimal(x.s)

Relevant(event) == event.event \in {"add", "update"} /\ event.itemtype = "Ticket"

\* the loop without its return statement: every relevant record adds a task
RECURSIVE WebhookLoop_NoReturn(_, _)
WebhookLoop_NoReturn(data, i) ==
  IF i > Len(data) THEN [kind |-> "no_relevant", ticket_id |-> 0, tasks |-> << >>]
  ELSE IF ~IsDict(data[i]) THEN [kind |-> "error", ticket_id |-> 0, tasks |-> << >>]
  ELSE IF Relevant(data[i]) THEN
         IF IntDefined(data[i].items_id)
         THEN LET rest == WebhookLoop_NoReturn(data, i + 1) IN
              [kind |-> IF rest.kind = "error" THEN "error" ELSE "initiated",
               ticket_id |-> IntOf(data[i].items_id),
               tasks |-> <<IntOf(data[i].items_id)>> \o rest.tasks]
         ELSE [kind |-> "error", ticket_id |-> 0, tasks |-> << >>]
  ELSE WebhookLoop_NoReturn(data, i + 1)

\* the for loop of glpi_webhook from record i on: the response and the tasks added
RECURSIVE WebhookLoop(_, _)
WebhookLoop(data, i) ==
  IF i > Len(data) THEN [kind |-> "no_relevant", ticket_id |-> 0, tasks |-> << >>]
  ELSE IF ~IsDict(data[i]) THEN [kind |-> "error", ticket_id |-> 0, tasks |-> << >>]
  ELSE IF Relevant(data[i]) THEN
         IF IntDefined(data[i].items_id)
         THEN [kind |-> "initiated", ticket_id |-> IntOf(data[i].items_id),
               tasks |-> <<IntOf(data[i].items_id)>>]
         ELSE [kind |-> "error", ticket_id |-> 0, tasks |-> << >>]
  ELSE WebhookLoop(data, i + 1)

\* a handler that reads a body that is not JSON as the empty list
HandleBody_NoDecodeError(body) == WebhookLoop(body.data, 1)

\* request.json() raises JSONDecodeError on a body that is not JSON
HandleBody(body) ==
  IF ~body.json THEN [kind |-> "error", ticket_id |-> 0, tasks |-> << >>]
  ELSE WebhookLoop(body.data, 1)

NoRequest ==
  [active |-> FALSE, body |-> [json |-> TRUE, data |-> << >>],
   resp |-> [kind |-> "none", ticket_id |-> 0], tasks |-> << >>]

\* a handler that awaits process_ticket instead of adding it as a background task
glpi_webhook_Await ==
  /\ run.pc = "idle"
  /\ ~http.active
  /\ served < MaxRequests
  /\ \E body \in Bodies :
       LET r == HandleBody(body) IN
       /\ http' = [active |-> TRUE, body |-> body,
                   resp |-> [kind |-> r.kind, ticket_id |-> r.ticket_id], tasks |-> << >>]
       /\ run' = IF r.tasks = << >> THEN run
                 ELSE [run EXCEPT !.pc = "get_ticket", !.ticket_id = r.tasks[1], !.gtAtt = 1]
  /\ served' = served + 1
  /\ UNCHANGED <<user_token, bucket_name, glpi, sessions, used, pending, obs, files, bucket>>

\* POST /webhook up to the return statement
glpi_webhook ==
  /\ run.pc = "idle"
  /\ ~http.active
  /\ served < MaxRequests
  /\ \E body \in Bodies :
       LET r == HandleBody(body) IN
       http' = [active |-> TRUE, body |-> body,
                resp |-> [kind |-> r.kind, ticket_id |-> r.ticket_id], tasks |-> r.tasks]
  /\ served' = served + 1
  /\ UNCHANGED <<user_token, bucket_name, glpi, sessions, used, pending, run, obs, files, bucket>>

\* the response is sent; the request's background tasks become runnable
send_response ==
  /\ run.pc = "idle"
  /\ http.active
  /\ pending' = pending \o http.tasks
  /\ http' = NoRequest
  /\ UNCHANGED <<user_token, bucket_name, glpi, sessions, used, served, run, obs, files, bucket>>

\* ------------------------------------------------------------------- texts
SP == " "
DOT == "."
STAR == "*"
MARK == "**"

MatchAt(text, i, ph) ==
  /\ i + Len(ph) - 1 <= Len(text)
  /\ SubSeq(text, i, i + Len(ph) - 1) = ph

IsInfix(ph, text) == \E i \in 1..(Len(text) + 1) : MatchAt(text, i, ph)

\* str.strip() of one line
RECURSIVE LStrip(_)
LStrip(line) == IF line # << >> /\ Head(line) = SP THEN LStrip(Tail(line)) ELSE line

RECURSIVE RStrip(_)
RStrip(line) ==
  IF line # << >> /\ line[Len(line)] = SP THEN RStrip(SubSeq(line, 1, Len(line) - 1)) ELSE line

Strip(line) == RStrip(LStrip(line))

\* str.split(sep) for a one-token separator: always at least one piece
RECURSIVE SplitFrom(_, _, _, _)
SplitFrom(text, sep, i, cur) ==
  IF i > Len(text) THEN <<cur>>
  ELSE IF text[i] = sep THEN <<cur>> \o SplitFrom(text, sep, i + 1, << >>)
  ELSE SplitFrom(text, sep, i + 1, Append(cur, text[i]))

Split(text, sep) == SplitFrom(text, sep, 1, << >>)

\* sep.join(pieces)
RECURSIVE Join(_, _)
Join(pieces, sep) ==
  IF pieces = << >> THEN << >>
  ELSE IF Len(pieces) = 1 THEN pieces[1]
  ELSE pieces[1] \o <<sep>> \o Join(Tail(pieces), sep)

\* ------------------------------------------------------------ Output Cleaner
\* A text is a sequence of tokens; a phrase of a pattern is a sequence of tokens
\* too, so that deleting one match can bring the tokens of another together.
\* The patterns ignore case: a token stands for its text in any letter case.
\* the phrases of the five patterns of post_process_llm_output
PleasePhrase == <<"Please let me know if you need any further assistance">>
HelpPhrase == <<"I'm", SP, "here to help">>
RegardsPhrase == <<"Best regards, [Your Name] IT Support Assistant">>
FurtherPhrase == <<"If you have any further questions or need any additional assistance">>
HoweverStart == <<"However, it is assumed that a ticket ID exists in the actual GLPI ticket", DOT>>
DontKnow == <<"I don't know">>
HoweverEnd == DontKnow \o <<DOT>>
NoIdStart == <<"No ticket ID is provided in the given content">>
NoIdEnd == <<"Ticket ID:  (Unknown)">>
NoteStart == <<"Note: The provided content does not include a ticket ID", DOT>>
NoteEnd == DontKnow

\* length of the alternative of the first pattern that matches at i, 0 when none does
FillerAt(text, i) ==
  LET opt(ph) == IF i + Len(ph) <= Len(text) /\ text[i + Len(ph)] = DOT THEN Len(ph) + 1 ELSE Len(ph)
  IN IF MatchAt(text, i, PleasePhrase) THEN opt(PleasePhrase)
     ELSE IF MatchAt(text, i, HelpPhrase) THEN opt(HelpPhrase)
     ELSE IF MatchAt(text, i, RegardsPhrase) THEN opt(RegardsPhrase)
     ELSE 0

\* re.sub of the first pattern, scanning from i
RECURSIVE SubFillers(_, _)
SubFillers(text, i) ==
  IF i > Len(text) THEN << >>
  ELSE IF FillerAt(text, i) > 0 THEN SubFillers(text, i + FillerAt(text, i))
  ELSE <<text[i]>> \o SubFillers(text, i + 1)

\* index of the line end (the newline, or Len + 1) at or after i
RECURSIVE LineEnd(_, _)
LineEnd(text, i) == IF i > Len(text) \/ text[i] = NL THEN i ELSE LineEnd(text, i + 1)

\* re.sub of "start.*": the match runs to the end of the line
RECURSIVE SubToEol(_, _, _)
SubToEol(text, start, i) ==
  IF i > Len(text) THEN << >>
  ELSE IF MatchAt(text, i, start) /\ LineEnd(text, i) >= i + Len(start)
       THEN SubToEol(text, start, LineEnd(text, i))
  ELSE <<text[i]>> \o SubToEol(text, start, i + 1)

\* the greedy ".*end" after a start matched at i: index after the last end on the line, 0 when none
SpanEnd(text, i, start, end) ==
  LET eol == LineEnd(text, i + Len(start))
      cands == { j \in (i + Len(start))..(eol - Len(end)) : MatchAt(text, j, end) }
  IN IF LineEnd(text, i) < i + Len(start) \/ cands = {} THEN 0
     ELSE (CHOOSE j \in cands : \A k \in cands : k <= j) + Len(end)

\* re.sub of "start.*end", scanning from i
RECURSIVE SubSpan(_, _, _, _)
SubSpan(text, start, end, i) ==
  IF i > Len(text) THEN << >>
  ELSE IF MatchAt(text, i, start) /\ SpanEnd(text, i, start, end) > 0
       THEN SubSpan(text, start, end, SpanEnd(text, i, start, end))
  ELSE <<text[i]>> \o SubSpan(text, start, end, i + 1)

StartsWithStar(line) == line # << >> /\ line[1] \in {STAR, MARK}

\* the line filter of post_process_llm_output
KeepLine(line) ==
  \/ StartsWithStar(line) /\ line # <<STAR>>
  \/ ~StartsWithStar(line) /\ line # << >>

RECURSIVE CleanLines(_)
CleanLines(lines) ==
  IF lines = << >> THEN << >>
  ELSE LET line == Strip(Head(lines)) IN
       (IF KeepLine(line) THEN <<line>> ELSE << >>) \o CleanLines(Tail(lines))

post_process_llm_output(text) ==
  LET t1 == SubFillers(text, 1)
      t2 == SubToEol(t1, FurtherPhrase, 1)
      t3 == SubSpan(t2, HoweverStart, HoweverEnd, 1)
      t4 == SubSpan(t3, NoIdStart, NoIdEnd, 1)
      t5 == SubSpan(t4, NoteStart, NoteEnd, 1)
  IN Join(CleanLines(Split(t5, NL)), NL)

\* --------------------------------------------------------- run bookkeeping
NoTicket == [none |-> TRUE, content |-> EmptyText, documents |-> << >>]

IdleRun ==
  [pc |-> "idle", ticket_id |-> 0, caller |-> None,
   gtAtt |-> 0, isAtt |-> 0, gdAtt |-> 0, upAtt |-> 0,
   ticket |-> NoTicket, linked_items |-> << >>, idx |-> 0, documents |-> << >>,
   text_summary |-> EmptyText, image_summary |-> EmptyText,
   final_result |-> EmptyText, cleaned_result |-> EmptyText, elements |-> << >>]

NoObs ==
  [reqs |-> [init |-> 0, ticket |-> 0],
   init_attempts |-> 0, init_result |-> "-", gd_result |-> "-", gt_result |-> "-",
   rag_calls |-> 0, vision_calls |-> 0, vision_results |-> << >>, merge_calls |-> 0,
   merge_prompt |-> << >>, merge_ret |-> EmptyText, combined |-> FALSE,
   renders |-> 0, builds |-> 0, uploads |-> 0, stored |-> FALSE, upload_result |-> "-", report_returned |-> FALSE,
   kill_calls |-> 0, kill_reqs |-> 0, kill_result |-> "-",
   exc_stage |-> "-", outcome |-> "-", log |-> {}]

\* ------------------------------------------------------------ GLPIConnector
\* GLPIConnector.__init__
NewConnector ==
  [session_token |-> NoToken,
   headers |-> [h \in {"Content-Type", "App-Token"} |-> 0]]

SetHeader(headers, name, value) ==
  [h \in DOMAIN headers \cup {name} |-> IF h = name THEN value ELSE headers[h]]

\* a del statement that removes nothing
DelHeader_Keep(headers, name) == headers

\* del self.headers[name]
DelHeader(headers, name) == [h \in DOMAIN headers \ {name} |-> headers[h]]

\* what the remote side answers to a request of this client
InitOutcomes == {"Ok", "NoTokenField", "RequestException", "BadBody"}
TicketContents == {EmptyText, <<"c">>}
LinkedItem == {[itemtype |-> "Document", items_id |-> 7], [itemtype |-> "Computer", items_id |-> 8]}
LinkedItemLists == UNION { [1..n -> LinkedItem] : n \in 0..MaxItems }
Filenames == {None, "f.png"}

\* initSession and ticket requests are counted up to one more than the retry limit
Bump(n) == IF n > stop_after_attempt THEN n ELSE n + 1

\* the frames of get_ticket and of what it calls are gone
Unwind(r) ==
  [r EXCEPT !.caller = None, !.gtAtt = 0, !.isAtt = 0, !.gdAtt = 0,
            !.linked_items = << >>, !.idx = 0, !.documents = << >>]

NoReqs == [init |-> 0, ticket |-> 0]

\* process_ticket's except clause: the error is logged, the finally clause follows
Except(r, o, stage) ==
  [run |-> [Unwind(r) EXCEPT !.pc = "finally"],
   obs |-> [o EXCEPT !.exc_stage = stage, !.outcome = "Failed", !.log = @ \cup {"error"}]]

\* a retry without a stop condition
RaiseInGetTicket_Forever(r, o) == [run |-> [r EXCEPT !.pc = "get_ticket"], obs |-> o]

\* tenacity: an exception leaving the body of get_ticket
RaiseInGetTicket(r, o) ==
  IF r.gtAtt < stop_after_attempt
  THEN [run |-> [r EXCEPT !.pc = "get_ticket", !.gtAtt = @ + 1], obs |-> o]
  ELSE Except(r, [o EXCEPT !.gt_result = "raised"], "Fetching")

\* tenacity: an exception leaving the body of get_ticket_documents
RaiseInDocuments(r, o) ==
  IF r.gdAtt < stop_after_attempt
  THEN [run |-> [r EXCEPT !.pc = "get_ticket_documents", !.gdAtt = @ + 1], obs |-> o]
  ELSE RaiseInGetTicket(r, [o EXCEPT !.gd_result = "raised"])

\* tenacity: an exception leaving the body of init_session
RaiseInInit(r, o) ==
  IF r.isAtt < stop_after_attempt
  THEN [run |-> [r EXCEPT !.isAtt = @ + 1], obs |-> o]
  ELSE IF r.caller = "get_ticket"
       THEN RaiseInGetTicket(r, [o EXCEPT !.init_result = "raised", !.init_attempts = r.isAtt])
       ELSE RaiseInDocuments(r, [o EXCEPT !.init_result = "raised", !.init_attempts = r.isAtt])

\* get_ticket returns None
ReturnNone(r, o) ==
  [run |-> [r EXCEPT !.pc = "check_ticket", !.ticket = NoTicket],
   obs |-> [o EXCEPT !.gt_result = "None"]]

\* get_ticket_documents returns docs; get_ticket attaches them and returns the ticket
ReturnDocuments(r, o, docs) ==
  [run |-> [r EXCEPT !.pc = "check_ticket", !.ticket.documents = docs],
   obs |-> [o EXCEPT !.gd_result = "list", !.gt_result = "ticket"]]

\* init_session returns False to its caller
InitFalse(r, o) ==
  IF r.caller = "get_ticket"
  THEN ReturnNone(r, [o EXCEPT !.init_result = "False", !.init_attempts = r.isAtt])
  ELSE ReturnDocuments(r, [o EXCEPT !.init_result = "False", !.init_attempts = r.isAtt], << >>)

\* init_session returns True to its caller
InitTrue(r, o) ==
  [run |-> [r EXCEPT !.pc = IF r.caller = "get_ticket" THEN "ticket_request" ELSE "items_request"],
   obs |-> [o EXCEPT !.init_result = "True", !.init_attempts = r.isAtt]]

\* a background task starts: process_ticket(ticket_id) calls get_ticket
process_ticket ==
  /\ run.pc = "idle"
  /\ ~http.active
  /\ pending # << >>
  /\ \E i \in 1..Len(pending) :
       /\ run' = [IdleRun EXCEPT !.pc = "get_ticket", !.ticket_id = pending[i], !.gtAtt = 1]
       /\ pending' = SubSeq(pending, 1, i - 1) \o SubSeq(pending, i + 1, Len(pending))
  /\ obs' = NoObs
  /\ UNCHANGED <<user_token, bucket_name, glpi, sessions, used, http, served, files, bucket>>

\* a get_ticket that sends its request without looking at the session token
get_ticket_NoInit ==
  /\ run.pc = "get_ticket"
  /\ run' = [run EXCEPT !.pc = "ticket_request"]
  /\ UNCHANGED <<user_token, bucket_name, glpi, sessions, used, http, served, pending, obs, files, bucket>>

\* get_ticket, one attempt, up to its first request
get_ticket ==
  /\ run.pc = "get_ticket"
  /\ run' = IF glpi.session_token = NoToken
            THEN [run EXCEPT !.pc = "init_session", !.caller = "get_ticket", !.isAtt = 1]
            ELSE [run EXCEPT !.pc = "ticket_request"]
  /\ UNCHANGED <<user_token, bucket_name, glpi, sessions, used, http, served, pending, obs, files, bucket>>

\* init_session, one attempt
init_session ==
  /\ run.pc = "init_session"
  /\ LET hdrs == IF user_token THEN SetHeader(glpi.headers, "Authorization", 0) ELSE glpi.headers
         o1 == [obs EXCEPT !.reqs.init = Bump(@)]
     IN \E out \in InitOutcomes :
          CASE out = "Ok" ->
                 LET tok == Len(sessions) + 1
                     res == InitTrue(run, o1) IN
                 /\ sessions' = Append(sessions, [ticket |-> run.ticket_id, kills |-> 0])
                 /\ glpi' = [session_token |-> tok,
                             headers |-> DelHeader(SetHeader(hdrs, "Session-Token", tok), "Authorization")]
                 /\ run' = res.run /\ obs' = res.obs
            [] out = "NoTokenField" ->
                 LET res == InitFalse(run, o1) IN
                 /\ glpi' = [session_token |-> NoToken, headers |-> hdrs]
                 /\ run' = res.run /\ obs' = res.obs
                 /\ UNCHANGED sessions
            [] out = "RequestException" ->
                 LET res == InitFalse(run, o1) IN
                 /\ glpi' = [glpi EXCEPT !.headers = hdrs]
                 /\ run' = res.run /\ obs' = res.obs
                 /\ UNCHANGED sessions
            [] out = "BadBody" ->
                 LET res == RaiseInInit(run, o1) IN
                 /\ glpi' = [glpi EXCEPT !.headers = hdrs]
                 /\ run' = res.run /\ obs' = res.obs
                 /\ UNCHANGED sessions
  /\ UNCHANGED <<user_token, bucket_name, used, http, served, pending, files, bucket>>

\* get_ticket: GET Ticket/<id>
ticket_request ==
  /\ run.pc = "ticket_request"
  /\ used' = used \cup {<<glpi.session_token, run.ticket_id>>}
  /\ LET o1 == [obs EXCEPT !.reqs.ticket = Bump(@)] IN
     \/ LET res == ReturnNone(run, o1) IN run' = res.run /\ obs' = res.obs
     \/ LET res == RaiseInGetTicket(run, o1) IN run' = res.run /\ obs' = res.obs
     \/ \E c \in TicketContents :
          /\ run' = [run EXCEPT !.pc = "get_ticket_documents", !.gdAtt = 1,
                                !.ticket = [none |-> FALSE, content |-> c, documents |-> << >>]]
          /\ obs' = o1
  /\ UNCHANGED <<user_token, bucket_name, glpi, sessions, http, served, pending, files, bucket>>

\* get_ticket_documents, one attempt, up to its first request
get_ticket_documents ==
  /\ run.pc = "get_ticket_documents"
  /\ run' = IF glpi.session_token = NoToken
            THEN [run EXCEPT !.pc = "init_session", !.caller = "get_ticket_documents", !.isAtt = 1]
            ELSE [run EXCEPT !.pc = "items_request"]
  /\ UNCHANGED <<user_token, bucket_name, glpi, sessions, used, http, served, pending, obs, files, bucket>>

\* get_ticket_documents: GET Ticket/<id>/Item_Ticket
items_request ==
  /\ run.pc = "items_request"
  /\ used' = used \cup {<<glpi.session_token, run.ticket_id>>}
  /\ LET o1 == obs IN
     \/ LET res == ReturnDocuments(run, o1, << >>) IN run' = res.run /\ obs' = res.obs
     \/ LET res == RaiseInDocuments(run, o1) IN run' = res.run /\ obs' = res.obs
     \/ \E items \in LinkedItemLists :
          /\ run' = [run EXCEPT !.pc = "document_loop", !.linked_items = items, !.idx = 1,
                                !.documents = << >>]
          /\ obs' = o1
  /\ UNCHANGED <<user_token, bucket_name, glpi, sessions, http, served, pending, files, bucket>>

\* a document entry that carries the file's encoded content
NewDocument_Encoded(items_id, filename) ==
  [id |-> items_id, filename |-> filename, encoded_content |-> "img"]

\* the dict appended for a linked document: id, filename, download_url, filepath and
\* no 'encoded_content' key, so doc.get('encoded_content') is None
NewDocument(items_id, filename) ==
  [id |-> items_id, filename |-> filename, encoded_content |-> None]

\* get_ticket_documents: one iteration of the loop over the linked items
document_loop ==
  /\ run.pc = "document_loop"
  /\ IF run.idx > Len(run.linked_items)
     THEN LET res == ReturnDocuments(run, obs, run.documents) IN
          run' = res.run /\ obs' = res.obs /\ UNCHANGED used
     ELSE IF run.linked_items[run.idx].itemtype # "Document"
     THEN run' = [run EXCEPT !.idx = @ + 1] /\ UNCHANGED <<obs, used>>
     ELSE /\ used' = used \cup {<<glpi.session_token, run.ticket_id>>}
          /\ LET o1 == obs IN
             \/ LET res == ReturnDocuments(run, o1, << >>) IN run' = res.run /\ obs' = res.obs
             \/ LET res == RaiseInDocuments(run, o1) IN run' = res.run /\ obs' = res.obs
             \/ \E filename \in Filenames :
                  /\ run' = [run EXCEPT !.idx = @ + 1,
                               !.documents =
                                 IF filename # None
                                 THEN Append(@, NewDocument(run.linked_items[run.idx].items_id,
                                                            filename))
                                 ELSE @]
                  /\ obs' = o1
  /\ UNCHANGED <<user_token, bucket_name, glpi, sessions, http, served, pending, files, bucket>>

\* a kill_session that sends its request whether or not a token is stored
kill_session_AlwaysRequest ==
  /\ run.pc = "finally"
  /\ sessions' = IF glpi.session_token = NoToken THEN sessions
                 ELSE [sessions EXCEPT ![glpi.session_token].kills = @ + 1]
  /\ \E ok \in BOOLEAN :
       obs' = [obs EXCEPT !.kill_calls = @ + 1, !.kill_reqs = @ + 1,
                          !.kill_result = IF ok THEN "True" ELSE "False",
                          !.log = IF ok THEN @ ELSE @ \cup {"kill_warning"}]
  /\ run' = [run EXCEPT !.pc = "done"]
  /\ UNCHANGED <<user_token, bucket_name, glpi, used, http, served, pending, files, bucket>>

\* kill_session, called from the finally clause of process_ticket
kill_session ==
  /\ run.pc = "finally"
  /\ IF glpi.session_token = NoToken
     THEN /\ obs' = [obs EXCEPT !.kill_calls = @ + 1, !.kill_result = "True"]
          /\ UNCHANGED sessions
     ELSE /\ sessions' = [sessions EXCEPT ![glpi.session_token].kills = @ + 1]
          /\ \E ok \in BOOLEAN :
               obs' = [obs EXCEPT !.kill_calls = @ + 1, !.kill_reqs = @ + 1,
                                  !.kill_result = IF ok THEN "True" ELSE "False",
                                  !.log = IF ok THEN @ ELSE @ \cup {"kill_warning"}]
  /\ run' = [run EXCEPT !.pc = "done"]
  /\ UNCHANGED <<user_token, bucket_name, glpi, used, http, served, pending, files, bucket>>

\* process_ticket returns; its locals are gone
process_ticket_return ==
  /\ run.pc = "done"
  /\ run' = IdleRun
  /\ obs' = NoObs
  /\ UNCHANGED <<user_token, bucket_name, glpi, sessions, used, http, served, pending, files, bucket>>

\* --------------------------------------------------------------- LLMService
\* texts a language-model call can return
LLMTexts == {EmptyText, <<"A">>, <<MARK, "Solution:", MARK, STAR, "fix", NL, STAR>>}

\* process_image returns None on every failure, otherwise the model's text
VisionResults == {[none |-> TRUE, text |-> EmptyText], [none |-> FALSE, text |-> EmptyText],
                  [none |-> FALSE, text |-> <<"I">>], [none |-> FALSE, text |-> <<"J">>]}

HasImage(doc) == doc.encoded_content # None /\ doc.encoded_content # ""

\* a loop that a None result ends
RECURSIVE ImageLoop_StopAtNone(_, _, _)
ImageLoop_StopAtNone(docs, results, i) ==
  IF i > Len(docs) THEN EmptyText
  ELSE IF HasImage(docs[i]) /\ results[i].none THEN EmptyText
  ELSE (IF HasImage(docs[i]) /\ results[i].text # EmptyText
        THEN results[i].text \o <<NL>> ELSE EmptyText) \o ImageLoop_StopAtNone(docs, results, i + 1)

\* the loop over ticket['documents'] from document i on, results[i] being what process_image returns
RECURSIVE ImageLoop(_, _, _)
ImageLoop(docs, results, i) ==
  IF i > Len(docs) THEN EmptyText
  ELSE (IF HasImage(docs[i]) /\ ~results[i].none /\ results[i].text # EmptyText
        THEN results[i].text \o <<NL>> ELSE EmptyText) \o ImageLoop(docs, results, i + 1)

ImageCalls(docs) == Cardinality({ i \in 1..Len(docs) : HasImage(docs[i]) })

\* the f-string handed to complete
CombinedPrompt(text_summary, image_summary) ==
  <<NL, "Combine the following text summary and image summary into a single, coherent summary:",
    NL, NL, MARK, "Text Summary:", MARK, NL>> \o text_summary
    \o <<NL, NL, MARK, "Image Summary:", MARK, NL>> \o image_summary \o <<NL>>

\* the merge condition written with "or"
NeedsMerge_Or(text_summary, image_summary) == text_summary # EmptyText \/ image_summary # EmptyText

\* the branch of the combine step that calls complete
NeedsMerge(text_summary, image_summary) == text_summary # EmptyText /\ image_summary # EmptyText

\* the branches of the combine step that make no call
Verbatim(text_summary, image_summary) ==
  IF text_summary # EmptyText THEN text_summary
  ELSE IF image_summary # EmptyText THEN image_summary
  ELSE NoInformation

\* ------------------------------------------------------------- PDFGenerator
Para(style, text) == [kind |-> style, text |-> text, items |-> << >>]
Spacer == [kind |-> "Spacer", text |-> << >>, items |-> << >>]
ListFlowable(items) == [kind |-> "List", text |-> << >>, items |-> items]

ListTitles == {<<"Troubleshooting Steps:">>, <<"Solution:">>}

RECURSIVE StripItems(_)
StripItems(pieces) ==
  IF pieces = << >> THEN << >>
  ELSE (IF Strip(Head(pieces)) # << >> THEN <<Strip(Head(pieces))>> ELSE << >>)
         \o StripItems(Tail(pieces))

\* _add_structured_result from section index i on (i counts from 0 as in the source)
RECURSIVE StructuredFrom(_, _)
StructuredFrom(sections, i) ==
  IF i >= Len(sections) THEN << >>
  ELSE LET title == Strip(sections[i + 1])
           content == IF i + 1 < Len(sections) THEN Strip(sections[i + 2]) ELSE << >>
       IN <<Para("Heading2", title)>>
            \o (IF title \in ListTitles
                THEN <<ListFlowable(StripItems(Split(content, STAR)))>>
                ELSE <<Para("Normal", content)>>)
            \o StructuredFrom(sections, i + 2)

\* a loop over the sections that starts at index 0
add_structured_result_FromZero(result_text) == StructuredFrom(Split(result_text, MARK), 0)

\* sections = result_text.split("**"); for i in range(1, len(sections), 2)
add_structured_result(result_text) == StructuredFrom(Split(result_text, MARK), 1)

\* source.get('source_id', 'N/A'): a source is the id it carries, None when it has none
SourceId(source) == IF source = None THEN "N/A" ELSE source

\* the loop over source_info without its break statement
ReportElements_NoBreak(title, result, source_info) ==
  <<Para("Heading1", title), Spacer, Para("Heading2", <<"Result:">>), Spacer>>
    \o add_structured_result(result)
    \o <<Spacer, Para("Heading2", <<"Source Information:">>), Spacer>>
    \o [i \in 1..(2 * Len(source_info)) |->
          IF i % 2 = 1 THEN Para("Normal", <<"Source ID: ", SourceId(source_info[(i + 1) \div 2])>>)
          ELSE Para("Normal", <<"Source Type: glpi_ticket">>)]

\* the elements generate_report assembles
ReportElements(title, result, source_info) ==
  <<Para("Heading1", title), Spacer, Para("Heading2", <<"Result:">>), Spacer>>
    \o add_structured_result(result)
    \o <<Spacer, Para("Heading2", <<"Source Information:">>), Spacer>>
    \o (IF source_info # << >>
        THEN <<Para("Normal", <<"Source ID: ", SourceId(source_info[1])>>),
               Para("Normal", <<"Source Type: glpi_ticket">>)>>
        ELSE << >>)

TitleOf(ticket_id) == <<"Ticket Analysis - #", ToString(ticket_id)>>

\* a finally clause that leaves the file
RemoveFile_Keep(fs, name) == fs

\* the finally clause of generate_report
RemoveFile(fs, name) == fs \ {name}

\* ------------------------------------------------- process_ticket, the stages
\* documents of a ticket, with or without encoded content
StageDocs == [id : {7}, filename : {"f.png"}, encoded_content : {None, "", "img"}]
StageDocLists == UNION { [1..n -> StageDocs] : n \in 0..MaxDocs }

\* the values final_result can take: what a model call returns, an accumulated
\* image summary, or the fixed string
FinalResults ==
  LLMTexts \cup {NoInformation}
    \cup UNION { { ImageLoop(docs, results, 1) : results \in [1..Len(docs) -> VisionResults] } :
                 docs \in StageDocLists }

\* cleaned_result = self.post_process_llm_output(final_result), tabulated over FinalResults
cleaned_result == [final_result \in FinalResults |-> post_process_llm_output(final_result)]

\* a check that lets None through
TicketMissing_Never(ticket) == FALSE

\* "if not ticket"
TicketMissing(ticket) == ticket.none

check_ticket ==
  /\ run.pc = "check_ticket"
  /\ IF TicketMissing(run.ticket)
     THEN /\ run' = [Unwind(run) EXCEPT !.pc = "finally"]
          /\ obs' = [obs EXCEPT !.outcome = "Failed", !.log = @ \cup {"not_found"}]
     ELSE /\ run' = [Unwind(run) EXCEPT !.pc = "summarize_text"]
          /\ obs' = [obs EXCEPT !.reqs = NoReqs, !.init_result = "-", !.init_attempts = 0,
                                !.gd_result = "-"]
  /\ UNCHANGED <<user_token, bucket_name, glpi, sessions, used, http, served, pending, files, bucket>>

\* text processing: rag_completion when the ticket has content
summarize_text ==
  /\ run.pc = "summarize_text"
  /\ IF run.ticket.content # EmptyText
     THEN LET o1 == [obs EXCEPT !.rag_calls = @ + 1] IN
          \/ \E t \in LLMTexts :
               /\ run' = [run EXCEPT !.pc = "summarize_images", !.text_summary = t]
               /\ obs' = o1
          \/ LET res == Except(run, o1, "SummarizingText") IN run' = res.run /\ obs' = res.obs
     ELSE /\ run' = [run EXCEPT !.pc = "summarize_images"]
          /\ UNCHANGED obs
  /\ UNCHANGED <<user_token, bucket_name, glpi, sessions, used, http, served, pending, files, bucket>>

\* what process_image returned for each document; None for a document it was not called for
Returned(docs, results) ==
  [i \in 1..Len(docs) |-> IF HasImage(docs[i]) THEN results[i] ELSE [none |-> TRUE, text |-> EmptyText]]

\* image processing: process_image for every document with encoded content
summarize_images ==
  /\ run.pc = "summarize_images"
  /\ LET docs == run.ticket.documents IN
     \E results \in [1..Len(docs) -> VisionResults] :
       /\ run' = [run EXCEPT !.pc = "combine", !.image_summary = ImageLoop(docs, results, 1)]
       /\ obs' = [obs EXCEPT !.vision_calls = @ + ImageCalls(docs),
                              !.vision_results = Returned(docs, results)]
  /\ UNCHANGED <<user_token, bucket_name, glpi, sessions, used, http, served, pending, files, bucket>>

\* combine summaries
combine ==
  /\ run.pc = "combine"
  /\ IF NeedsMerge(run.text_summary, run.image_summary)
     THEN LET o1 == [obs EXCEPT !.merge_calls = @ + 1,
                                !.merge_prompt = CombinedPrompt(run.text_summary, run.image_summary)]
          IN
          \/ \E t \in LLMTexts :
               /\ run' = [run EXCEPT !.pc = "clean", !.final_result = t]
               /\ obs' = [o1 EXCEPT !.merge_ret = t, !.combined = TRUE]
          \/ LET res == Except(run, o1, "Combining") IN run' = res.run /\ obs' = res.obs
     ELSE /\ run' = [run EXCEPT !.pc = "clean",
                                !.final_result = Verbatim(run.text_summary, run.image_summary)]
          /\ obs' = [obs EXCEPT !.combined = TRUE]
  /\ UNCHANGED <<user_token, bucket_name, glpi, sessions, used, http, served, pending, files, bucket>>

\* post-processing and PDFGenerator.__init__, which raises ValueError without a bucket name
clean ==
  /\ run.pc = "clean"
  /\ IF bucket_name
     THEN /\ run' = [run EXCEPT !.pc = "generate_report",
                                !.cleaned_result = cleaned_result[run.final_result]]
          /\ UNCHANGED obs
     ELSE LET res == Except([run EXCEPT !.cleaned_result = cleaned_result[run.final_result]],
                            obs, "Rendering")
          IN run' = res.run /\ obs' = res.obs
  /\ UNCHANGED <<user_token, bucket_name, glpi, sessions, used, http, served, pending, files, bucket>>

\* generate_report up to its try statement: the elements; a Paragraph may reject its text
generate_report ==
  /\ run.pc = "generate_report"
  /\ LET o1 == [obs EXCEPT !.renders = @ + 1] IN
     \/ /\ run' = [run EXCEPT !.pc = "build",
                     !.elements = ReportElements(TitleOf(run.ticket_id), run.cleaned_result,
                                                 <<ToString(run.ticket_id)>>)]
        /\ obs' = o1
     \/ LET res == Except(run, o1, "Rendering") IN run' = res.run /\ obs' = res.obs
  /\ UNCHANGED <<user_token, bucket_name, glpi, sessions, used, http, served, pending, files, bucket>>

\* generate_report: self.doc.build(elements); a failed build may leave a partial file
build ==
  /\ run.pc = "build"
  /\ \/ /\ files' = files \cup {run.ticket_id}
        /\ run' = [run EXCEPT !.pc = "upload", !.upAtt = 1]
        /\ obs' = [obs EXCEPT !.builds = @ + 1]
     \/ /\ \E partial \in BOOLEAN :
             files' = IF partial THEN files \cup {run.ticket_id} ELSE files
        /\ run' = [run EXCEPT !.pc = "report_finally"]
        /\ obs' = [obs EXCEPT !.builds = @ + 1, !.exc_stage = "Rendering"]
  /\ UNCHANGED <<user_token, bucket_name, glpi, sessions, used, http, served, pending, bucket>>

\* upload_to_s3, one attempt; tenacity raises RetryError after the last one
\* (the decorator is the one glpi_connector.py imports from tenacity)
upload_to_s3 ==
  /\ run.pc = "upload"
  /\ LET o1 == [obs EXCEPT !.uploads = @ + 1] IN
     \/ /\ bucket' = bucket \cup {run.ticket_id}
        /\ run' = [run EXCEPT !.pc = "report_finally"]
        /\ obs' = [o1 EXCEPT !.upload_result = "ok", !.stored = TRUE]
     \/ /\ UNCHANGED bucket
        /\ IF run.upAtt < stop_after_attempt
           THEN run' = [run EXCEPT !.upAtt = @ + 1] /\ obs' = o1
           ELSE /\ run' = [run EXCEPT !.pc = "report_finally"]
                /\ obs' = [o1 EXCEPT !.upload_result = "failed", !.exc_stage = "Uploading"]
  /\ UNCHANGED <<user_token, bucket_name, glpi, sessions, used, http, served, pending, files>>

\* generate_report's except and finally clauses; it returns and process_ticket logs the report
report_finally ==
  /\ run.pc = "report_finally"
  /\ files' = RemoveFile(files, run.ticket_id)
  /\ run' = [run EXCEPT !.pc = "finally"]
  /\ obs' = [obs EXCEPT !.report_returned = TRUE, !.outcome = "Done",
                        !.log = @ \cup {"report_generated"}]
  /\ UNCHANGED <<user_token, bucket_name, glpi, sessions, used, http, served, pending, bucket>>

\* ----------------------------------------------------------- specifications
Init ==
  /\ user_token \in BOOLEAN
  /\ bucket_name \in BOOLEAN
  /\ glpi = NewConnector
  /\ sessions = << >>
  /\ used = {}
  /\ http = NoRequest
  /\ served = 0
  /\ pending = << >>
  /\ run = IdleRun
  /\ obs = NoObs
  /\ files = {}
  /\ bucket = {}

Stages ==
  \/ check_ticket \/ summarize_text \/ summarize_images \/ combine \/ clean
  \/ generate_report \/ build \/ upload_to_s3 \/ report_finally
  \/ kill_session \/ process_ticket_return

Next ==
  \/ glpi_webhook \/ send_response \/ process_ticket
  \/ get_ticket \/ init_session \/ ticket_request
  \/ get_ticket_documents \/ items_request \/ document_loop
  \/ Stages

Spec == Init /\ [][Next]_vars

\* the steps of a run after it has started
RunStep ==
  \/ get_ticket \/ init_session \/ ticket_request
  \/ get_ticket_documents \/ items_request \/ document_loop
  \/ Stages

\* the event loop: a response that is ready is sent, a released task is started,
\* a started run goes on (it has no await), and every remote call returns;
\* nothing obliges a client to send a webhook request
\* the process with one webhook request still to come: the requests before it
\* were answered without a task
LastRequestInit ==
  /\ user_token \in BOOLEAN
  /\ bucket_name \in BOOLEAN
  /\ glpi = NewConnector
  /\ sessions = << >>
  /\ used = {}
  /\ http = NoRequest
  /\ served = MaxRequests - 1
  /\ pending = << >>
  /\ run = IdleRun
  /\ obs = NoObs
  /\ files = {}
  /\ bucket = {}

FairSpec ==
  /\ LastRequestInit /\ [][Next]_vars
  /\ WF_vars(send_response) /\ WF_vars(process_ticket) /\ WF_vars(RunStep)

\* the session the client's token names has received no killSession request
SessionAlive ==
  glpi.session_token # NoToken /\ sessions[glpi.session_token].kills = 0

\* a step in a healthy environment: initSession answers with a token, the
\* ticketing service answers a request made with a live session with what was
\* asked for and rejects one made with a terminated session (an HTTP error,
\* which raise_for_status turns into a RequestException), the model calls
\* return a text, the build and the upload succeed
Healthy ==
  /\ run.pc = "init_session" => glpi'.session_token # NoToken
  /\ run.pc = "ticket_request" =>
       IF SessionAlive THEN run'.pc = "get_ticket_documents"
       ELSE run'.pc = "check_ticket" /\ run'.ticket.none
  /\ run.pc = "items_request" =>
       IF SessionAlive THEN run'.pc = "document_loop"
       ELSE run'.pc = "check_ticket" /\ run'.ticket.documents = << >>
  /\ (run.pc = "document_loop" /\ run.idx <= Len(run.linked_items)) =>
       IF SessionAlive THEN run'.pc = "document_loop" /\ run'.idx = run.idx + 1
       ELSE run'.pc = "check_ticket" /\ run'.ticket.documents = << >>
  /\ run.pc = "summarize_text" => run'.pc = "summarize_images" /\ run'.text_summary # EmptyText
  /\ run.pc = "combine" => run'.pc = "clean"
  /\ run.pc = "generate_report" => run'.pc = "build"
  /\ run.pc = "build" => run'.pc = "upload"
  /\ run.pc = "upload" => obs'.stored
  /\ run.pc = "finally" => (obs'.kill_result = "True" <=> SessionAlive)

\* the process with its configuration complete
HealthyInit == Init /\ bucket_name

HealthySpec == HealthyInit /\ [][Next /\ Healthy]_vars

\* the stages of process_ticket as a function of the ticket get_ticket hands over:
\* the ticket, its documents and their encoded content are drawn from bounded sets
StageTickets ==
  {NoTicket} \cup [none : {FALSE}, content : TicketContents, documents : StageDocLists]

StageInit ==
  /\ user_token = FALSE
  /\ bucket_name \in BOOLEAN
  /\ glpi = [session_token |-> 1, headers |-> SetHeader(NewConnector.headers, "Session-Token", 1)]
  /\ http = NoRequest
  /\ served = 1
  /\ pending = << >>
  /\ files = {}
  /\ bucket = {}
  /\ \E t \in TicketIds, ticket \in StageTickets :
       /\ sessions = <<[ticket |-> t, kills |-> 0]>>
       /\ used = {<<1, t>>}
       /\ run = [IdleRun EXCEPT !.pc = "check_ticket", !.ticket_id = t, !.ticket = ticket]
       /\ obs = [NoObs EXCEPT !.gt_result = IF ticket.none THEN "None" ELSE "ticket"]

SpecStages == StageInit /\ [][Stages]_vars

\* post_process_llm_output as a function of its argument: the text is drawn from
\* the token sequences of bounded length, cleaned, and its result cleaned again
SectionMarker == "Key Information:"
CleanerTokens == {"I'm", SP, "here to help", PleasePhrase[1], STAR, NL, SectionMarker, "A"}
CleanerTexts == UNION { [1..n -> CleanerTokens] : n \in 0..MaxText }

CleanerInit ==
  /\ user_token = FALSE
  /\ bucket_name = TRUE
  /\ glpi = NewConnector
  /\ sessions = << >>
  /\ used = {}
  /\ http = NoRequest
  /\ served = 0
  /\ pending = << >>
  /\ obs = NoObs
  /\ files = {}
  /\ bucket = {}
  /\ \E text \in CleanerTexts : run = [IdleRun EXCEPT !.pc = "post_process", !.final_result = text]

\* cleaned_result = post_process_llm_output(final_result)
post_process ==
  /\ run.pc = "post_process"
  /\ run' = [run EXCEPT !.pc = "post_processed",
                        !.cleaned_result = post_process_llm_output(run.final_result)]
  /\ UNCHANGED <<user_token, bucket_name, glpi, sessions, used, http, served, pending, obs, files, bucket>>

\* the cleaner applied to its own result
post_process_again ==
  /\ run.pc = "post_processed"
  /\ run' = [run EXCEPT !.pc = "post_processed_again", !.final_result = run.cleaned_result,
                        !.cleaned_result = post_process_llm_output(run.cleaned_result)]
  /\ UNCHANGED <<user_token, bucket_name, glpi, sessions, used, http, served, pending, obs, files, bucket>>

Cleaner == post_process \/ post_process_again

SpecCleaner == CleanerInit /\ [][Cleaner]_vars

\* the elements of generate_report as a function of its arguments: title, result
\* and source_info are drawn from bounded sets; run holds the arguments and the list
SourceInfos == UNION { [1..n -> {"1", "2", None}] : n \in 0..MaxSources }
RenderResults == { cleaned_result[t] : t \in LLMTexts \cup {NoInformation} }

RenderInit ==
  /\ user_token = FALSE
  /\ bucket_name = TRUE
  /\ glpi = NewConnector
  /\ sessions = << >>
  /\ used = {}
  /\ http = NoRequest
  /\ served = 0
  /\ pending = << >>
  /\ obs = NoObs
  /\ files = {}
  /\ bucket = {}
  /\ \E t \in TicketIds, result \in RenderResults, source_info \in SourceInfos :
       run = [pc |-> "generate_report", title |-> TitleOf(t), result |-> result,
              source_info |-> source_info, elements |-> << >>]

\* generate_report from its first statement to the end of the loop over source_info
assemble_elements ==
  /\ run.pc = "generate_report"
  /\ run' = [run EXCEPT !.pc = "assembled",
                        !.elements = ReportElements(run.title, run.result, run.source_info)]
  /\ UNCHANGED <<user_token, bucket_name, glpi, sessions, used, http, served, pending, obs, files, bucket>>

SpecRender == RenderInit /\ [][assemble_elements]_vars

\* _add_structured_result as a function of result_text: the text is drawn from
\* bounded token sequences and the fixed string; run holds the argument and the
\* elements appended
StructuredTokens == {MARK, STAR, SP, "Solution:", "text"}
StructuredTexts ==
  {NoInformation} \cup UNION { [1..n -> StructuredTokens] : n \in 0..MaxResult }

StructuredInit ==
  /\ user_token = FALSE
  /\ bucket_name = TRUE
  /\ glpi = NewConnector
  /\ sessions = << >>
  /\ used = {}
  /\ http = NoRequest
  /\ served = 0
  /\ pending = << >>
  /\ obs = NoObs
  /\ files = {}
  /\ bucket = {}
  /\ \E result_text \in StructuredTexts :
       run = [pc |-> "add_structured_result", result_text |-> result_text, elements |-> << >>]

\* self._add_structured_result(elements, result) on an empty list of elements
structure_result ==
  /\ run.pc = "add_structured_result"
  /\ run' = [run EXCEPT !.pc = "structured",
                        !.elements = add_structured_result(run.result_text)]
  /\ UNCHANGED <<user_token, bucket_name, glpi, sessions, used, http, served, pending, obs, files, bucket>>

SpecStructured == StructuredInit /\ [][structure_result]_vars

\* ------------------------------------------------------------------- claims
Tokens == 1..Len(sessions)

\* C1: a session token obtained during one ticket's run is never used for a
\* remote call (ticket, linked items, document) of a run for another ticket id.
C1_SessionNotReused ==
  \A p \in used : p[1] \in Tokens /\ sessions[p[1]].ticket = p[2]

\* C2: every run attempts session termination exactly once when it concludes,
\* and every session opened by initSession receives exactly one kill request
\* over the life of the process, never zero and never two.
C2_KilledExactlyOnce ==
  /\ run.pc = "done" => obs.kill_calls = 1
  /\ \A tok \in Tokens :
       /\ sessions[tok].kills <= 1
       /\ run.pc \in {"done", "idle"} => sessions[tok].kills = 1

\* C3: combining: both summaries non-empty => complete is called exactly once
\* with both in its prompt and the combined result is what it returns; exactly
\* one non-empty => that summary verbatim and no call; both empty => the fixed
\* string "No information available." and no call.
C3_CombineRule ==
  LET t == run.text_summary
      im == run.image_summary
  IN /\ obs.merge_calls <= 1
     /\ obs.merge_calls = 1 => t # EmptyText /\ im # EmptyText
     /\ obs.combined =>
          /\ (t # EmptyText /\ im # EmptyText) =>
               /\ obs.merge_calls = 1
               /\ IsInfix(t, obs.merge_prompt) /\ IsInfix(im, obs.merge_prompt)
               /\ run.final_result = obs.merge_ret
          /\ (t # EmptyText /\ im = EmptyText) => obs.merge_calls = 0 /\ run.final_result = t
          /\ (t = EmptyText /\ im # EmptyText) => obs.merge_calls = 0 /\ run.final_result = im
          /\ (t = EmptyText /\ im = EmptyText) =>
               obs.merge_calls = 0 /\ run.final_result = <<"No information available.">>

C3_Witness ==
  /\ obs.combined /\ obs.merge_calls = 1
  /\ run.text_summary = <<"A">> /\ run.image_summary = <<"I", NL, "I", NL>>
  /\ run.final_result = obs.merge_ret /\ obs.merge_ret # <<"A">>

\* C4: when get_ticket returns None the run aborts as failed: no summarizer,
\* merge, render, build or upload call happens in it and only the session kill follows.
C4_NotFoundAborts ==
  obs.gt_result = "None" =>
    /\ run.pc \in {"check_ticket", "finally", "done"}
    /\ obs.rag_calls = 0 /\ obs.vision_calls = 0 /\ obs.merge_calls = 0
    /\ obs.renders = 0 /\ obs.builds = 0 /\ obs.uploads = 0 /\ ~obs.stored
    /\ run.pc = "done" =>
         /\ obs.outcome = "Failed"
         /\ "not_found" \in obs.log /\ obs.log \subseteq {"not_found", "kill_warning"}
         /\ obs.kill_calls = 1

C4_Witness ==
  /\ run.pc = "done" /\ obs.gt_result = "None" /\ obs.outcome = "Failed"
  /\ obs.kill_calls = 1 /\ obs.kill_reqs = 1

\* C5: when the upload fails on all of its attempts the failure propagates to
\* the pipeline run, which ends Failed and does not report the report as generated.
C5_StoreFailureFailsRun ==
  (run.pc = "done" /\ obs.upload_result = "failed") =>
    /\ obs.outcome = "Failed"
    /\ "report_generated" \notin obs.log

\* C6: an exception in a stage from Fetching through Rendering ends the run with
\* no upload and does not leave process_ticket; the Uploading stage's exception
\* is the one that is reported upward as a pipeline failure.
C6_OnlyUploadReportedUpward ==
  run.pc = "done" =>
    /\ obs.exc_stage \in {"Fetching", "SummarizingText", "Combining", "Rendering"} =>
         obs.uploads = 0 /\ ~obs.stored /\ obs.outcome # "Raised"
    /\ obs.exc_stage = "Uploading" => obs.outcome = "Failed" /\ "error" \in obs.log

\* C7: a remote call of the Ticket Client that keeps failing is attempted 3
\* times before it counts as failed; init_session returns False only after
\* 3 failed attempts.
C7_ThreeAttemptsBeforeFailure ==
  /\ obs.init_result = "False" => obs.init_attempts = 3
  /\ (obs.gt_result = "None" /\ obs.init_result # "False") => obs.reqs.ticket = 3

\* C8: a terminal failure of a Ticket Client call never reaches the caller as
\* an exception: init_session returns False, get_ticket_documents the empty
\* list and get_ticket None, whatever the kind of failure.
C8_NoExceptionFromClient ==
  /\ obs.init_result # "raised"
  /\ obs.gd_result # "raised"
  /\ obs.gt_result # "raised"

\* C9: after generate_report has returned, the local PDF file of the run does
\* not exist, whether the build and the upload succeeded or failed.
C9_LocalFileRemoved ==
  obs.report_returned => run.ticket_id \notin files

C9_Witness ==
  /\ obs.report_returned /\ obs.builds = 1 /\ obs.uploads = 3 /\ obs.upload_result = "failed"
  /\ files = {}

\* the records of a JSON body that are objects with event in {add, update} and itemtype Ticket
Matching(data) == { i \in 1..Len(data) : IsDict(data[i]) /\ Relevant(data[i]) }
FirstMatching(data) == CHOOSE i \in Matching(data) : \A j \in Matching(data) : i <= j

\* C10 as stated: a request with at least one matching record schedules exactly
\* one run, for the ticket id of the first such record, and never more than one.
C10_AnyMatchSchedulesOne ==
  (http.active /\ http.body.json /\ Matching(http.body.data) # {}) =>
    LET first == http.body.data[FirstMatching(http.body.data)] IN
    /\ Len(http.tasks) = 1
    /\ IntDefined(first.items_id) => http.tasks[1] = IntOf(first.items_id)

\* C10 amended: a request whose first matching record carries an items_id that
\* int() accepts, and has only JSON objects before it, schedules exactly one run,
\* for that record's ticket id; no request schedules more than one run.
C10_FirstMatchSchedulesOne ==
  http.active =>
    /\ Len(http.tasks) <= 1
    /\ (http.body.json /\ Matching(http.body.data) # {}) =>
         LET k == FirstMatching(http.body.data)
             first == http.body.data[k] IN
         (IntDefined(first.items_id) /\ \A j \in 1..(k - 1) : IsDict(http.body.data[j])) =>
           /\ http.tasks = <<IntOf(first.items_id)>>
           /\ http.resp = [kind |-> "initiated", ticket_id |-> IntOf(first.items_id)]

C10_Witness ==
  /\ http.active /\ http.body.json /\ Len(http.body.data) = 2
  /\ Matching(http.body.data) = {1, 2}
  /\ http.body.data[1].items_id = [t |-> "str", n |-> 0, s |-> <<"2">>]
  /\ http.body.data[2].items_id = [t |-> "int", n |-> 1, s |-> << >>]
  /\ http.tasks = <<2>>

\* C11 as stated: a request with no matching record gets the "no relevant
\* event" response and schedules zero runs; a body that is not JSON gets an
\* error payload and schedules zero runs; an error payload means zero runs.
C11_NoMatchNoRelevant ==
  http.active =>
    /\ (http.body.json /\ Matching(http.body.data) = {}) =>
         http.resp.kind = "no_relevant" /\ http.tasks = << >>
    /\ ~http.body.json => http.resp.kind = "error" /\ http.tasks = << >>
    /\ http.resp.kind = "error" => http.tasks = << >>

\* C11 amended: a request whose body is a JSON array of objects none of which
\* matches gets the "no relevant event" response; a body that is not JSON, a
\* body with an element that is not an object before any match, and a body
\* whose first matching record has an items_id int() rejects get an error
\* payload; every request answered with either response has scheduled zero runs.
C11_NoRunWithoutInitiation ==
  http.active =>
    LET data == http.body.data
        objects(n) == \A j \in 1..n : IsDict(data[j]) IN
    /\ (http.body.json /\ Matching(data) = {} /\ objects(Len(data))) => http.resp.kind = "no_relevant"
    /\ (http.body.json /\ Matching(data) = {} /\ ~objects(Len(data))) => http.resp.kind = "error"
    /\ ~http.body.json => http.resp.kind = "error"
    /\ (http.body.json /\ Matching(data) # {}) =>
         LET k == FirstMatching(data) IN
         (objects(k - 1) /\ ~IntDefined(data[k].items_id)) => http.resp.kind = "error"
    /\ http.resp.kind \in {"error", "no_relevant"} => http.tasks = << >>
    /\ http.resp.kind = "initiated" => Len(http.tasks) = 1

C11_Witness ==
  /\ http.active /\ http.body.json /\ Len(http.body.data) = 2
  /\ Matching(http.body.data) = {2} /\ IsDict(http.body.data[1])
  /\ http.body.data[2].items_id = [t |-> "str", n |-> 0, s |-> <<"x">>]
  /\ http.resp.kind = "error" /\ http.tasks = << >>

\* C12: the handler only schedules the run and returns: the tasks a request
\* added become runnable at the step that sends its response and not before, a
\* run starts only from a task released that way and while no request is being
\* answered, and no step of a run touches the request record or its response.
C12_ResponseBeforeRun ==
  /\ [](http.active => run.pc = "idle")
  /\ [][ /\ pending' # pending =>
              \/ /\ http.active /\ ~http'.active /\ http.resp.kind = "initiated"
                 /\ pending' = pending \o http.tasks /\ run' = run
              \/ /\ run.pc = "idle" /\ run'.pc = "get_ticket" /\ ~http.active
                 /\ \E i \in 1..Len(pending) :
                      /\ pending[i] = run'.ticket_id
                      /\ pending' = SubSeq(pending, 1, i - 1) \o SubSeq(pending, i + 1, Len(pending))
         /\ (run.pc = "idle" /\ run'.pc # "idle") => (pending' # pending /\ http' = http)
         /\ run.pc # "idle" => (http' = http /\ served' = served /\ pending' = pending)
         /\ (http.active /\ http'.active) => http' = http
      ]_vars

C12_Witness ==
  /\ run.pc = "done" /\ obs.outcome = "Failed" /\ run.ticket_id = 2
  /\ served = 1 /\ http = NoRequest /\ pending = << >>

\* the tickets for which a task is waiting, added by the request being answered or released
Scheduled == { http.tasks[i] : i \in 1..Len(http.tasks) } \cup { pending[i] : i \in 1..Len(pending) }

\* C13: under fair scheduling and remote calls that return, every scheduled run
\* is executed and terminates: it ends Done or Failed with its session-kill step
\* performed once, no attempt counter goes beyond the retry limit, and the
\* tasks waiting are all taken up.
C13_ScheduledRunTerminates ==
  /\ \A t \in TicketIds :
       (t \in Scheduled) ~>
         (run.pc = "done" /\ run.ticket_id = t /\ obs.outcome \in {"Done", "Failed"} /\ obs.kill_calls = 1)
  /\ (Scheduled # {}) ~> (Scheduled = {} /\ run.pc = "idle")
  /\ [](/\ run.gtAtt <= stop_after_attempt /\ run.isAtt <= stop_after_attempt
        /\ run.gdAtt <= stop_after_attempt /\ run.upAtt <= stop_after_attempt)

C13_Witness ==
  /\ run.pc = "done" /\ obs.outcome = "Done" /\ obs.kill_calls = 1 /\ obs.uploads = stop_after_attempt
  /\ served = MaxRequests /\ Scheduled = {} /\ run.ticket_id = 2

\* C14: runs for different tickets share no mutable state: the session token
\* and the Session-Token header that a run can read or write were written by a
\* run for the same ticket, never by a run for another ticket.
C14_NoSharedConnectorState ==
  run.pc \notin {"idle", "done"} =>
    /\ glpi.session_token # NoToken => sessions[glpi.session_token].ticket = run.ticket_id
    /\ "Session-Token" \in DOMAIN glpi.headers =>
         sessions[glpi.headers["Session-Token"]].ticket = run.ticket_id

\* C15: the Output Cleaner is idempotent: cleaning a cleaned text gives the
\* same text, clean(clean(x)) = clean(x) for every input x.
C15_CleanerIdempotent ==
  run.pc = "post_processed_again" => run.cleaned_result = run.final_result

\* number of occurrences of a token in a text
Occurrences(text, token) == Cardinality({ i \in 1..Len(text) : text[i] = token })

\* the text up to the second occurrence of a token
UpToRepetition(text, token) ==
  LET at == { i \in 1..Len(text) : text[i] = token }
      second == CHOOSE i \in at : Cardinality({ j \in at : j < i }) = 1
  IN SubSeq(text, 1, second - 1)

\* C16: when the text handed to the cleaner contains a section marker twice, the
\* cleaned output keeps only the content up to the first repetition: it is the
\* cleaned text before the second marker, and no marker occurs twice in it.
C16_DuplicateSectionCollapsed ==
  (run.pc = "post_processed" /\ Occurrences(run.final_result, SectionMarker) >= 2) =>
    /\ Occurrences(run.cleaned_result, SectionMarker) <= 1
    /\ run.cleaned_result = post_process_llm_output(UpToRepetition(run.final_result, SectionMarker))

\* the paragraphs of an element list whose text begins with a given token
Beginning(elements, token) ==
  { i \in 1..Len(elements) : elements[i].text # << >> /\ elements[i].text[1] = token }

\* C17: assembling the report never fails on an empty source list; for every
\* input the element list holds the title and the "Result:" heading; with a
\* non-empty source list the source block lists the id of the first source
\* only, with the constant type label, whatever the number of sources.
C17_RenderSourcesBlock ==
  run.pc = "assembled" =>
    LET e == run.elements
        n == Len(e)
        ids == Beginning(e, "Source ID: ")
        types == Beginning(e, "Source Type: glpi_ticket") IN
    /\ n >= 7
    /\ e[1] = [kind |-> "Heading1", text |-> run.title, items |-> << >>]
    /\ e[3] = [kind |-> "Heading2", text |-> <<"Result:">>, items |-> << >>]
    /\ run.source_info = << >> =>
         /\ ids = {} /\ types = {}
         /\ e[n - 1] = [kind |-> "Heading2", text |-> <<"Source Information:">>, items |-> << >>]
    /\ run.source_info # << >> =>
         /\ ids = {n - 1} /\ types = {n}
         /\ e[n - 3] = [kind |-> "Heading2", text |-> <<"Source Information:">>, items |-> << >>]
         /\ run.source_info[1] # None => e[n - 1].text = <<"Source ID: ", run.source_info[1]>>

C17_Witness ==
  /\ run.pc = "assembled" /\ Len(run.source_info) = MaxSources
  /\ run.source_info[1] = "2" /\ run.source_info[2] = "1"
  /\ Beginning(run.elements, "Source ID: ") = {Len(run.elements) - 1}
  /\ run.elements[Len(run.elements) - 1].text = <<"Source ID: ", "2">>

\* the run is fetching a document linked to a ticket whose resource it has fetched
ResolvingDocuments ==
  /\ run.pc = "document_loop"
  /\ run.idx <= Len(run.linked_items)
  /\ run.linked_items[run.idx].itemtype = "Document"

\* C18: once the ticket has been fetched, a document that cannot be resolved, a
\* failed vision call and an empty content do not end the run: it goes on to
\* the report; "No information available." is the combined result only when
\* the text summary and the image summary are both empty.
C18_BestEffortReport ==
  /\ [][ /\ ResolvingDocuments => run'.pc # "finally"
         /\ run.pc = "summarize_images" => run'.pc = "combine"
         /\ (run.pc = "summarize_text" /\ run.ticket.content = EmptyText) =>
              (run'.pc = "summarize_images" /\ obs' = obs)
      ]_vars
  /\ [](obs.combined =>
          (run.final_result = NoInformation <=>
             (run.text_summary = EmptyText /\ run.image_summary = EmptyText)))

\* C19: missing required configuration is fatal at startup: a process whose
\* configuration is incomplete serves no webhook request and starts no run.
\* Of the required settings the state holds the bucket name (a process without
\* the LLM keys does not get past the construction of AutoPDF, so no state of
\* the model lacks them).
C19_MissingConfigFatalAtStartup ==
  ~bucket_name => (served = 0 /\ ~http.active /\ pending = << >> /\ run.pc = "idle")

\* C20: no authenticated request (ticket, linked items, document) is sent while
\* the client holds no session token: a run that is about to send one holds a
\* token and carries it in the Session-Token header, and when init_session
\* returns False get_ticket returns None without having sent the ticket request.
C20_NoRequestWithoutToken ==
  /\ \A p \in used : p[1] # NoToken
  /\ run.pc \in {"ticket_request", "items_request", "document_loop"} =>
       /\ glpi.session_token # NoToken
       /\ "Session-Token" \in DOMAIN glpi.headers
       /\ glpi.headers["Session-Token"] = glpi.session_token
  /\ obs.init_result = "False" =>
       /\ obs.gt_result = "None" /\ obs.reqs.ticket = 0
       /\ glpi.session_token = NoToken /\ used = {}

C20_Witness ==
  /\ run.pc = "check_ticket" /\ obs.init_result = "False" /\ obs.gt_result = "None"
  /\ obs.reqs.init = 1 /\ obs.reqs.ticket = 0 /\ used = {} /\ glpi.session_token = NoToken

\* C21: kill_session with no stored token sends no request, returns True and
\* leaves the client unchanged; with a stored token it sends one request, a
\* failed termination comes back as False with a warning logged and nothing
\* raised, and in both cases the run concludes with the outcome it had.
C21_KillSessionBestEffort ==
  [][ run.pc = "finally" =>
        /\ run'.pc = "done"
        /\ glpi' = glpi
        /\ obs'.kill_calls = obs.kill_calls + 1
        /\ obs'.outcome = obs.outcome /\ obs'.exc_stage = obs.exc_stage
        /\ glpi.session_token = NoToken =>
             /\ obs'.kill_reqs = obs.kill_reqs /\ sessions' = sessions
             /\ obs'.kill_result = "True" /\ obs'.log = obs.log
        /\ glpi.session_token # NoToken =>
             /\ obs'.kill_reqs = obs.kill_reqs + 1
             /\ obs'.kill_result \in {"True", "False"}
             /\ obs'.kill_result = "False" <=> obs'.log = obs.log \cup {"kill_warning"}
             /\ obs'.kill_result = "True" => obs'.log = obs.log
    ]_vars

C21_Witness ==
  /\ run.pc = "done" /\ obs.kill_result = "False" /\ obs.kill_reqs = 1 /\ obs.kill_calls = 1
  /\ obs.outcome = "Done" /\ obs.stored /\ "kill_warning" \in obs.log

\* C22: within one get_ticket invocation each remote endpoint is requested at
\* most 3 times, also when the failing call is made through init_session or
\* get_ticket_documents; stated for the two endpoints whose requests are
\* counted, initSession and the ticket resource.
C22_AtMostThreeRequestsPerEndpoint ==
  /\ obs.reqs.init <= stop_after_attempt
  /\ obs.reqs.ticket <= stop_after_attempt

\* the documents for which process_image was called and returned a text
Contributing(docs, results) ==
  { i \in 1..Len(docs) : docs[i].encoded_content \notin {None, ""} /\ ~results[i].none }

\* the texts of the first n documents, each non-empty one followed by a newline, in list order
RECURSIVE InOrder(_, _, _)
InOrder(docs, results, n) ==
  IF n = 0 THEN << >>
  ELSE InOrder(docs, results, n - 1)
         \o (IF n \in Contributing(docs, results) /\ results[n].text # << >>
             THEN results[n].text \o <<NL>> ELSE << >>)

\* C23: the image summary is the concatenation, in document-list order, of the
\* vision results of exactly the documents that have image content and whose
\* call returned a result other than None; process_image is called once for
\* each document with image content, and a None result does not end the run.
C23_ImageSummaryInOrder ==
  run.pc \in {"combine", "clean", "generate_report", "build", "upload", "report_finally"} =>
    LET docs == run.ticket.documents IN
    /\ Len(obs.vision_results) = Len(docs)
    /\ run.image_summary = InOrder(docs, obs.vision_results, Len(docs))
    /\ obs.vision_calls = Cardinality({ i \in 1..Len(docs) : docs[i].encoded_content \notin {None, ""} })
    /\ obs.exc_stage \in {"-", "Rendering", "Uploading"}

C23_Witness ==
  /\ run.pc = "combine" /\ Len(run.ticket.documents) = 2
  /\ Contributing(run.ticket.documents, obs.vision_results) = {1, 2}
  /\ obs.vision_results[1].text = <<"J">> /\ obs.vision_results[2].text = <<"I">>
  /\ run.image_summary = <<"J", NL, "I", NL>>

\* C24: the header table of the client carries a Session-Token entry exactly
\* when a session token is stored, the entry is that token, and the table never
\* carries the Authorization entry while a session token is stored.
C24_HeadersMatchToken ==
  /\ "Session-Token" \in DOMAIN glpi.headers <=> glpi.session_token # NoToken
  /\ glpi.session_token # NoToken =>
       /\ glpi.headers["Session-Token"] = glpi.session_token
       /\ "Authorization" \notin DOMAIN glpi.headers

C24_Witness ==
  /\ user_token /\ run.pc = "ticket_request" /\ obs.reqs.init = 2
  /\ glpi.session_token = 1 /\ DOMAIN glpi.headers = {"Content-Type", "App-Token", "Session-Token"}

\* C25: with every remote service healthy, every ticket present and the
\* ticketing service rejecting calls made with a terminated session, every
\* run of the process, not only the first one, ends Done with its report uploaded.
C25_EveryRunDone ==
  run.pc = "done" => (obs.outcome = "Done" /\ obs.stored)

\* C26: in a run whose ticket get_ticket returned, no document carries encoded
\* content: process_image is called for no document, the image summary stays
\* empty, complete is never called to merge, and the final result is the text
\* summary, or the fixed string when the text summary is empty.
C26_NoImageAfterGetTicket ==
  /\ \A i \in 1..Len(run.ticket.documents) : ~HasImage(run.ticket.documents[i])
  /\ obs.vision_calls = 0
  /\ run.image_summary = EmptyText
  /\ obs.merge_calls = 0
  /\ run.pc = "clean" =>
       run.final_result = (IF run.text_summary # EmptyText THEN run.text_summary
                           ELSE NoInformation)

C26_Witness ==
  /\ run.pc = "clean"
  /\ Len(run.ticket.documents) = MaxDocs
  /\ run.text_summary # EmptyText
  /\ obs.rag_calls = 1

\* C27: with the segments of result_text split on "**" counted from 0,
\* _add_structured_result appends, for each odd-indexed segment, one heading
\* (the stripped segment) followed by one body made from the segment after it
\* (an empty body when no segment follows): a bullet list for the two list
\* titles, a paragraph otherwise. Segment 0, the text before the first
\* marker, yields nothing, so a text without a marker yields no element.
C27_HeadingPerOddSegment ==
  run.pc = "structured" =>
    LET sections == Split(run.result_text, MARK)
        e == run.elements
        k == Len(sections) \div 2 IN
    /\ Len(e) = 2 * k
    /\ \A j \in 1..k :
         LET title == Strip(sections[2 * j])
             content == IF 2 * j + 1 <= Len(sections) THEN Strip(sections[2 * j + 1])
                        ELSE << >> IN
         /\ e[2 * j - 1] = [kind |-> "Heading2", text |-> title, items |-> << >>]
         /\ e[2 * j] = IF title \in ListTitles
                       THEN [kind |-> "List", text |-> << >>,
                             items |-> StripItems(Split(content, STAR))]
                       ELSE [kind |-> "Normal", text |-> content, items |-> << >>]
    /\ (\A i \in 1..Len(run.result_text) : run.result_text[i] # MARK) => e = << >>

C27_Witness ==
  /\ run.pc = "structured"
  /\ run.result_text = <<"text", MARK, "Solution:", MARK, "text">>
  /\ run.elements = <<[kind |-> "Heading2", text |-> <<"Solution:">>, items |-> << >>],
                      [kind |-> "List", text |-> << >>, items |-> << <<"text">> >>]>>

====
